---- MODULE Spec2Model ----
(***************************************************************************)
(* Rosella IRC server: the dispatcher (src/rosella.go: Server.Run,         *)
(* Server.HandleConnection, Server.handleEvent) together with the session  *)
(* harness and the Client operations of src/client.go (setNick,            *)
(* joinChannel, partChannel, disconnect, reply, clientThread, readThread,  *)
(* writeThread).  Where src/rosella.go carries an older variant of an      *)
(* operation that src/client.go defines (setNick, joinChannel,             *)
(* partChannel, disconnect, reply, the three threads), the definition of   *)
(* src/client.go is the one modelled; handleEvent's calls                  *)
(* s.joinChannel(c, ch) and s.partChannel(c, ch) are read as               *)
(* c.joinChannel(ch) and c.partChannel(ch, "").                            *)
(*                                                                         *)
(* Strings are sequences of one-character strings, so that                 *)
(* strings.ToLower, the regular expressions and strings.Split are computed *)
(* and not assumed.  Go channels are modelled by what they hold:           *)
(* unbuffered channels (eventChan, outputChan) are rendezvous between a    *)
(* blocked sender and a receiver, buffered ones are counters or sequences. *)
(* Each goroutine advances from one blocking point to the next in one      *)
(* step.                                                                   *)
(***************************************************************************)
EXTENDS Integers, Sequences, FiniteSets, TLC

VARIABLES
    clientMap,   \* Server.clientMap: key -> client
    channelMap,  \* Server.channelMap: channel key -> channel object
    chans,       \* the Channel objects: object id -> Channel (or NoChan)
    cl,          \* the Client objects: nick, key, registered, connected, channelMap
    stack,       \* per goroutine running handler code: the rest of its work
    sup,         \* clientThread's position, per client
    rd,          \* readThread's position, per client
    wr,          \* writeThread's position, per client
    rline,       \* the line readThread is sending on eventChan
    sig,         \* number of signals held by Client.signalChan
    rsig,        \* number of signals held by readSignalChan
    wsig,        \* number of signals held by writeSignalChan
    writeChan,   \* the lines held by clientThread's writeChan
    closed,      \* number of calls of connection.Close
    lines,       \* per connection, the lines its remote end sends next: a
                 \* sequence of sets, one line of each set in turn
    peer,        \* what each connection's remote end does (the environment)
    cause,       \* per client, the callers of its disconnect so far (history)
    wire,        \* per connection, the lines written to it so far (history)
    hev,         \* the event the dispatcher handles or handled last (history)
    hprev,       \* the event the dispatcher handled before hev (history)
    hlog         \* the lines the dispatcher enqueued while handling hev (history)

vars == <<clientMap, channelMap, chans, cl, stack, sup, rd, wr, rline, sig,
          rsig, wsig, writeChan, closed, lines, peer, cause, wire, hev, hprev,
          hlog>>

-----------------------------------------------------------------------------
(* Bounds and program constants *)

Clients == {"c1", "c2", "c3"}

Disp == "disp"

Threads == Clients \cup {Disp}

MaxObjs == 4

ObjIds == 1..MaxObjs

SignalCap == 3

WriteChanCap == 100

NamesCap == 128

-----------------------------------------------------------------------------
(* Strings *)

UpperLetters == {"A", "B", "R"}

LowerLetters == {"a", "b", "e", "l", "o", "r", "s", "x", "y"}

Digits == {"0", "9"}

NickSpecials == {"[", "]", "_", "^", "{", "|", "}"}

LowerChar(ch) ==
    CASE ch = "A" -> "a"
      [] ch = "B" -> "b"
      [] ch = "R" -> "r"
      [] OTHER -> ch

ToLower(s) == [i \in 1..Len(s) |-> LowerChar(s[i])]

nickRegexp(s) ==
    /\ Len(s) >= 1
    /\ s[1] \in UpperLetters \cup LowerLetters \cup NickSpecials
    /\ \A i \in 2..Len(s) :
          s[i] \in UpperLetters \cup LowerLetters \cup Digits \cup NickSpecials

channelRegexp(s) ==
    /\ Len(s) >= 2
    /\ s[1] = "#"
    /\ \A i \in 2..Len(s) : s[i] \in LowerLetters \cup Digits \cup {"_", "-"}

RECURSIVE Split(_)
Split(s) ==
    IF \A i \in 1..Len(s) : s[i] # ","
    THEN <<s>>
    ELSE LET i == CHOOSE j \in 1..Len(s) :
                     s[j] = "," /\ \A k \in 1..(j - 1) : s[k] # ","
         IN <<SubSeq(s, 1, i - 1)>> \o Split(SubSeq(s, i + 1, Len(s)))

name == <<"r", "o", "s", "e", "l", "l", "a">>

-----------------------------------------------------------------------------
(* Go maps *)

EmptyMap == [x \in {} |-> {}]

MapPut(f, k, v) == [x \in (DOMAIN f) \cup {k} |-> IF x = k THEN v ELSE f[x]]

MapDel(f, k) == [x \in (DOMAIN f) \ {k} |-> f[x]]

Range(f) == {f[x] : x \in DOMAIN f}

-----------------------------------------------------------------------------
(* Objects *)

NoChan == [name |-> <<>>, topic |-> <<>>, clientMap |-> EmptyMap,
           modeMap |-> EmptyMap, noExternal |-> FALSE]

NewClient == [nick |-> <<>>, key |-> <<>>, registered |-> FALSE,
              connected |-> TRUE, channelMap |-> EmptyMap]

NoClient == [NewClient EXCEPT !.connected = FALSE]

World == [clientMap |-> clientMap, channelMap |-> channelMap,
          chans |-> chans, cl |-> cl, sig |-> sig, cause |-> cause]

(* A reply line before formatting: the reply code and its arguments. *)
Line(code, a0, a1, a2) == [code |-> code, a0 |-> a0, a1 |-> a1, a2 |-> a2]

(* The work a goroutine has left inside handler code, innermost first. *)
F0 == [op |-> "", c |-> "", to |-> "", name |-> <<>>, obj |-> 0,
       old |-> <<>>, oldKey |-> <<>>, done |-> {}, vis |-> {},
       rest |-> <<>>, line |-> Line("", <<>>, <<>>, <<>>), reason |-> <<>>, why |-> ""]

Reply(to, line) == [F0 EXCEPT !.op = "reply", !.to = to, !.line = line]

Refs(W, stk) ==
    Range(W.channelMap)
      \cup UNION {Range(W.cl[c].channelMap) : c \in Clients}
      \cup UNION {{stk[t][i].obj : i \in 1..Len(stk[t])} : t \in Threads}

(* Channel objects nothing points to are garbage. *)
Collect(W, stk) ==
    [W EXCEPT !.chans = [o \in ObjIds |->
                            IF o \in Refs(W, stk) THEN W.chans[o] ELSE NoChan]]

(* Client.reply, lines 146-148: a reply to a client that is not connected   *)
(* returns at once; any other blocks in a send on its outputChan.           *)
RECURSIVE Norm(_, _)
Norm(stk, clx) ==
    IF stk = <<>> \/ Head(stk).op # "reply"
    THEN stk
    ELSE IF clx[Head(stk).to].connected
         THEN <<[Head(stk) EXCEPT !.op = "send"]>> \o Tail(stk)
         ELSE Norm(Tail(stk), clx)

-----------------------------------------------------------------------------
(* Client.setNick *)

setNick(W, c, nick) ==
    LET oldNick == W.cl[c].nick
        oldKey == W.cl[c].key
        key == ToLower(nick)
    IN [w |-> [W EXCEPT !.cl[c].nick = nick,
                        !.cl[c].key = key,
                        !.clientMap = MapPut(MapDel(@, oldKey), key, c)],
        st |-> <<Reply(c, Line("rplNickChange", oldNick, nick, <<>>)),
                 [F0 EXCEPT !.op = "nickChannels", !.c = c, !.old = oldNick,
                            !.oldKey = oldKey]>>]

(* lines 25-26: the next channel of c.channelMap; delete(channel.clientMap, oldKey) *)
nickChannels(W, f, rest) ==
    LET cm == W.cl[f.c].channelMap
        cand == (DOMAIN cm) \ f.done
    IN IF cand = {}
       THEN {[w |-> W, st |-> rest]}
       ELSE {[w |-> [W EXCEPT !.chans[cm[n]].clientMap = MapDel(@, f.oldKey)],
              st |-> <<[f EXCEPT !.op = "nickMembers", !.obj = cm[n],
                                 !.done = {}],
                       [f EXCEPT !.done = @ \cup {n}]>> \o rest] : n \in cand}

(* lines 28-41: notify the members not yet visited, then insert the new key *)
nickMembers(W, f, rest) ==
    LET m == W.chans[f.obj].clientMap
        cand == {k \in (DOMAIN m) \ f.done : m[k] \notin f.vis}
        mm == W.chans[f.obj].modeMap
        key == W.cl[f.c].key
        moved == IF f.oldKey \in DOMAIN mm THEN mm[f.oldKey] ELSE "nil"
    IN IF cand = {}
       THEN {[w |-> [W EXCEPT !.chans[f.obj].clientMap = MapPut(@, key, f.c),
                               !.chans[f.obj].modeMap =
                                   MapDel(MapPut(@, key, moved), f.oldKey)],
              st |-> <<[Head(rest) EXCEPT !.vis = f.vis]>> \o Tail(rest)]}
       ELSE {[w |-> W,
              st |-> <<Reply(m[k], Line("rplNickChange", f.old,
                                        W.cl[f.c].nick, <<>>)),
                       [f EXCEPT !.done = @ \cup {k},
                                 !.vis = @ \cup {m[k]}]>> \o rest] : k \in cand}

-----------------------------------------------------------------------------
(* Client.joinChannel *)

FreeObjs(W, stk) == ObjIds \ Refs(W, stk)

(* joinChannel without lines 63-66: a member is entered again *)
joinChannelAgain(W, stk, f, rest) ==
    LET channelKey == ToLower(f.name)
        exists == channelKey \in DOMAIN W.channelMap
        key == W.cl[f.c].key
    IN IF ~exists /\ FreeObjs(W, stk) = {}
       THEN {}
       ELSE
       LET o == IF exists THEN W.channelMap[channelKey]
                ELSE CHOOSE x \in FreeObjs(W, stk) :
                         \A y \in FreeObjs(W, stk) : x <= y
           W1 == IF exists THEN W
                 ELSE [W EXCEPT !.chans[o] = [name |-> f.name, topic |-> <<>>,
                                              clientMap |-> EmptyMap,
                                              modeMap |-> EmptyMap,
                                              noExternal |-> TRUE],
                                !.channelMap = MapPut(@, channelKey, o)]
       IN {[w |-> [W1 EXCEPT
                     !.chans[o].clientMap = MapPut(@, key, f.c),
                     !.chans[o].modeMap =
                         MapPut(@, key, IF exists THEN "plain" ELSE "operator"),
                     !.cl[f.c].channelMap = MapPut(@, channelKey, o)],
            st |-> <<[f EXCEPT !.op = "joinMembers", !.obj = o,
                               !.done = {}]>> \o rest]}

(* lines 46-76: look the channel up or create it, return when already a     *)
(* member, else enter the member and mode tables and c.channelMap           *)
joinChannel(W, stk, f, rest) ==
    LET channelKey == ToLower(f.name)
        exists == channelKey \in DOMAIN W.channelMap
        key == W.cl[f.c].key
    IN IF ~exists /\ FreeObjs(W, stk) = {}
       THEN {}
       ELSE
       LET o == IF exists THEN W.channelMap[channelKey]
                ELSE CHOOSE x \in FreeObjs(W, stk) :
                         \A y \in FreeObjs(W, stk) : x <= y
           W1 == IF exists THEN W
                 ELSE [W EXCEPT !.chans[o] = [name |-> f.name, topic |-> <<>>,
                                              clientMap |-> EmptyMap,
                                              modeMap |-> EmptyMap,
                                              noExternal |-> TRUE],
                                !.channelMap = MapPut(@, channelKey, o)]
       IN IF key \in DOMAIN W1.chans[o].clientMap
          THEN {[w |-> W1, st |-> rest]}
          ELSE {[w |-> [W1 EXCEPT
                          !.chans[o].clientMap = MapPut(@, key, f.c),
                          !.chans[o].modeMap =
                              MapPut(@, key, IF exists THEN "plain" ELSE "operator"),
                          !.cl[f.c].channelMap = MapPut(@, channelKey, o)],
                 st |-> <<[f EXCEPT !.op = "joinMembers", !.obj = o,
                                    !.done = {}]>> \o rest]}

(* lines 78-86: rplJoin to every member, then the topic to c *)
joinMembers(W, f, rest) ==
    LET ch == W.chans[f.obj]
        cand == (DOMAIN ch.clientMap) \ f.done
    IN IF cand = {}
       THEN {[w |-> W,
              st |-> <<Reply(f.c, IF ch.topic # <<>>
                                  THEN Line("rplTopic", ch.name, ch.topic, <<>>)
                                  ELSE Line("rplNoTopic", ch.name, <<>>, <<>>)),
                       [f EXCEPT !.op = "joinNames"]>> \o rest]}
       ELSE {[w |-> W,
              st |-> <<Reply(ch.clientMap[k],
                             Line("rplJoin", W.cl[f.c].nick, ch.name, <<>>)),
                       [f EXCEPT !.done = @ \cup {k}]>> \o rest] : k \in cand}

Prefix(mode) == IF mode = "operator" THEN <<"@">> ELSE <<>>

(* lines 103: the entry of one member in the names list *)
NameOf(W, ch, client) ==
    LET k == W.cl[client].key
    IN (IF k \in DOMAIN ch.modeMap THEN Prefix(ch.modeMap[k]) ELSE <<>>)
          \o W.cl[client].nick

(* lines 89-108: the members in groups of at most cap(nicks) *)
RECURSIVE NameChunks(_)
NameChunks(keys) ==
    IF keys = {} THEN <<>>
    ELSE IF Cardinality(keys) <= NamesCap THEN <<keys>>
    ELSE LET first == CHOOSE S \in SUBSET keys : Cardinality(S) = NamesCap
         IN <<first>> \o NameChunks(keys \ first)

(* lines 89-110: one rplNames per group, then rplEndOfNames *)
joinNames(W, f, rest) ==
    LET ch == W.chans[f.obj]
        chunks == NameChunks(DOMAIN ch.clientMap)
    IN {[w |-> W,
         st |-> [i \in 1..Len(chunks) |->
                   Reply(f.c, Line("rplNames", f.name,
                                   [k \in chunks[i] |->
                                       NameOf(W, ch, ch.clientMap[k])], <<>>))]
                \o <<Reply(f.c, Line("rplEndOfNames", f.name, <<>>, <<>>))>>
                \o rest]}

-----------------------------------------------------------------------------
(* Client.partChannel *)

(* lines 114-123 *)
partChannel(W, f, rest) ==
    LET channelKey == ToLower(f.name)
    IN IF channelKey \notin DOMAIN W.channelMap
       THEN {[w |-> W, st |-> rest]}
       ELSE LET o == W.channelMap[channelKey]
            IN IF W.cl[f.c].key \notin DOMAIN W.chans[o].clientMap
               THEN {[w |-> W, st |-> rest]}
               ELSE {[w |-> W,
                      st |-> <<[f EXCEPT !.op = "partMembers", !.obj = o,
                                         !.done = {}]>> \o rest]}

(* partMembers without lines 134-136: an empty channel stays in channelMap *)
partMembersKeep(W, f, rest) ==
    LET ch == W.chans[f.obj]
        cand == (DOMAIN ch.clientMap) \ f.done
        channelKey == ToLower(f.name)
        key == W.cl[f.c].key
        W1 == [W EXCEPT !.cl[f.c].channelMap = MapDel(@, channelKey),
                        !.chans[f.obj].modeMap = MapDel(@, key),
                        !.chans[f.obj].clientMap = MapDel(@, key)]
    IN IF cand = {}
       THEN {[w |-> W1, st |-> rest]}
       ELSE {[w |-> W,
              st |-> <<Reply(ch.clientMap[k],
                             Line("rplPart", W.cl[f.c].nick, ch.name, f.reason)),
                       [f EXCEPT !.done = @ \cup {k}]>> \o rest] : k \in cand}

(* partMembers without line 131: the mode table keeps the entry *)
partMembersKeepMode(W, f, rest) ==
    LET ch == W.chans[f.obj]
        cand == (DOMAIN ch.clientMap) \ f.done
        channelKey == ToLower(f.name)
        key == W.cl[f.c].key
        W1 == [W EXCEPT !.cl[f.c].channelMap = MapDel(@, channelKey),
                        !.chans[f.obj].clientMap = MapDel(@, key)]
    IN IF cand = {}
       THEN {[w |-> IF DOMAIN W1.chans[f.obj].clientMap = {}
                    THEN [W1 EXCEPT !.channelMap = MapDel(@, channelKey)]
                    ELSE W1,
              st |-> rest]}
       ELSE {[w |-> W,
              st |-> <<Reply(ch.clientMap[k],
                             Line("rplPart", W.cl[f.c].nick, ch.name, f.reason)),
                       [f EXCEPT !.done = @ \cup {k}]>> \o rest] : k \in cand}

(* lines 126-136: rplPart to every member, then the removal *)
partMembers(W, f, rest) ==
    LET ch == W.chans[f.obj]
        cand == (DOMAIN ch.clientMap) \ f.done
        channelKey == ToLower(f.name)
        key == W.cl[f.c].key
        W1 == [W EXCEPT !.cl[f.c].channelMap = MapDel(@, channelKey),
                        !.chans[f.obj].modeMap = MapDel(@, key),
                        !.chans[f.obj].clientMap = MapDel(@, key)]
    IN IF cand = {}
       THEN {[w |-> IF DOMAIN W1.chans[f.obj].clientMap = {}
                    THEN [W1 EXCEPT !.channelMap = MapDel(@, channelKey)]
                    ELSE W1,
              st |-> rest]}
       ELSE {[w |-> W,
              st |-> <<Reply(ch.clientMap[k],
                             Line("rplPart", W.cl[f.c].nick, ch.name, f.reason)),
                       [f EXCEPT !.done = @ \cup {k}]>> \o rest] : k \in cand}

-----------------------------------------------------------------------------
(* Server.handleEvent *)

Cmd(verb, args) == [verb |-> verb, args |-> args]

NoInput == Cmd("", <<>>)

RECURSIVE Join(_, _)
Join(strs, sep) ==
    IF strs = <<>> THEN <<>>
    ELSE IF Len(strs) = 1 THEN strs[1]
    ELSE strs[1] \o sep \o Join(Tail(strs), sep)

TrimPrefix(s, ch) == IF s # <<>> /\ s[1] = ch THEN Tail(s) ELSE s

Frame(op, c) == [F0 EXCEPT !.op = op, !.c = c]

Only(W, c, code, a0) == [w |-> W, st |-> <<Reply(c, Line(code, a0, <<>>, <<>>))>>]

(* lines 117-142 *)
handleNick(W, c, args) ==
    IF Len(args) < 1 THEN Only(W, c, "errNoNick", <<>>)
    ELSE IF ~nickRegexp(args[1]) THEN Only(W, c, "errInvalidNick", args[1])
    ELSE IF args[1] \in DOMAIN W.clientMap THEN Only(W, c, "errNickInUse", args[1])
    ELSE IF args[1] = name THEN Only(W, c, "errNickInUse", args[1])
    ELSE setNick(W, c, args[1])

(* lines 144-151 *)
handleUser(W, c, args) ==
    IF W.cl[c].nick = <<>>
    THEN [w |-> W,
          st |-> <<Reply(c, Line("rplKill", <<>>, <<>>, <<>>)),
                   [Frame("disconnect", c) EXCEPT !.why = "kill"]>>]
    ELSE [w |-> W,
          st |-> <<Reply(c, Line("rplWelcome", <<>>, <<>>, <<>>)),
                   Frame("registered", c)>>]

(* lines 153-178 *)
handleJoin(W, c, args) ==
    IF ~W.cl[c].registered THEN Only(W, c, "errNotReg", <<>>)
    ELSE IF Len(args) < 1 THEN Only(W, c, "errMoreArgs", <<>>)
    ELSE IF args[1] = <<"0">>
         THEN [w |-> W, st |-> <<Frame("partAll", c)>>]
    ELSE [w |-> W,
          st |-> <<[Frame("joinEach", c) EXCEPT !.rest = Split(args[1])]>>]

(* lines 180-197 *)
handlePart(W, c, args) ==
    IF ~W.cl[c].registered THEN Only(W, c, "errNotReg", <<>>)
    ELSE IF Len(args) < 1 THEN Only(W, c, "errMoreArgs", <<>>)
    ELSE [w |-> W,
          st |-> <<[Frame("partEach", c) EXCEPT !.rest = Split(args[1])]>>]

(* lines 199-225 *)
handlePrivmsg(W, c, args) ==
    IF ~W.cl[c].registered THEN Only(W, c, "errNotReg", <<>>)
    ELSE IF Len(args) < 2 THEN Only(W, c, "errMoreArgs", <<>>)
    ELSE
    LET message == Join(Tail(args), <<" ">>)
    IN IF args[1] \in DOMAIN W.channelMap
       THEN [w |-> W,
             st |-> <<[Frame("relay", c) EXCEPT
                         !.obj = W.channelMap[args[1]],
                         !.line = Line("rplMsg", W.cl[c].nick, args[1], message)]>>]
       ELSE IF args[1] \in DOMAIN W.clientMap
       THEN LET client == W.clientMap[args[1]]
            IN [w |-> W,
                st |-> <<Reply(client, Line("rplMsg", W.cl[c].nick,
                                            W.cl[client].nick, message))>>]
       ELSE Only(W, c, "errNoSuchNick", args[1])

(* lines 227-234 *)
handleQuit(W, c, args) ==
    IF ~W.cl[c].registered THEN Only(W, c, "errNotReg", <<>>)
    ELSE [w |-> W, st |-> <<[Frame("disconnect", c) EXCEPT !.why = "quit"]>>]

(* lines 236-273 *)
handleTopic(W, c, args) ==
    IF ~W.cl[c].registered THEN Only(W, c, "errNotReg", <<>>)
    ELSE IF Len(args) < 1 THEN Only(W, c, "errMoreArgs", <<>>)
    ELSE IF args[1] \notin DOMAIN W.channelMap
         THEN Only(W, c, "errNoSuchNick", args[1])
    ELSE
    LET o == W.channelMap[args[1]]
        topic == TrimPrefix(Join(Tail(args), <<" ">>), ":")
    IN IF Len(args) = 1
       THEN [w |-> W,
             st |-> <<Reply(c, Line("rplTopic", args[1], W.chans[o].topic, <<>>))>>]
       ELSE IF args[2] = <<":">>
       THEN [w |-> [W EXCEPT !.chans[o].topic = <<>>],
             st |-> <<[Frame("relay", "") EXCEPT
                         !.obj = o,
                         !.line = Line("rplNoTopic", args[1], <<>>, <<>>)]>>]
       ELSE [w |-> [W EXCEPT !.chans[o].topic = topic],
             st |-> <<[Frame("relay", "") EXCEPT
                         !.obj = o,
                         !.line = Line("rplTopic", args[1], topic, <<>>)]>>]

(* lines 275-303: one list item per channel, handed to reply(rplList, ...) *)
handleList(W, c, args) ==
    IF ~W.cl[c].registered THEN Only(W, c, "errNotReg", <<>>)
    ELSE
    LET asked == IF Len(args) = 0 THEN DOMAIN W.channelMap
                 ELSE {n \in DOMAIN W.channelMap :
                          \E i \in 1..Len(Split(args[1])) : Split(args[1])[i] = n}
        item(n) == <<Cardinality(DOMAIN W.chans[W.channelMap[n]].clientMap),
                     W.chans[W.channelMap[n]].topic>>
    IN [w |-> W,
        st |-> <<Reply(c, Line("rplList", [n \in asked |-> item(n)], <<>>, <<>>))>>]

(* lines 102-116, 305-307 *)
handleEvent(W, c, input) ==
    IF input.verb = "" THEN [w |-> W, st |-> <<>>]
    ELSE CASE input.verb = "NICK" -> handleNick(W, c, input.args)
           [] input.verb = "USER" -> handleUser(W, c, input.args)
           [] input.verb = "JOIN" -> handleJoin(W, c, input.args)
           [] input.verb = "PART" -> handlePart(W, c, input.args)
           [] input.verb = "PRIVMSG" -> handlePrivmsg(W, c, input.args)
           [] input.verb = "QUIT" -> handleQuit(W, c, input.args)
           [] input.verb = "TOPIC" -> handleTopic(W, c, input.args)
           [] input.verb = "LIST" -> handleList(W, c, input.args)
           [] OTHER -> Only(W, c, "errUnknownCommand", <<>>)

(* rosella.go lines 172-178: the next name of the JOIN list *)
joinEach(W, f, rest) ==
    IF f.rest = <<>> THEN {[w |-> W, st |-> rest]}
    ELSE LET more == [f EXCEPT !.rest = Tail(@)]
         IN IF channelRegexp(Head(f.rest))
            THEN {[w |-> W,
                   st |-> <<[Frame("joinChannel", f.c) EXCEPT
                               !.name = Head(f.rest)], more>> \o rest]}
            ELSE {[w |-> W, st |-> <<more>> \o rest]}

(* rosella.go lines 191-197: the next name of the PART list *)
partEach(W, f, rest) ==
    IF f.rest = <<>> THEN {[w |-> W, st |-> rest]}
    ELSE LET more == [f EXCEPT !.rest = Tail(@)]
         IN IF channelRegexp(Head(f.rest))
            THEN {[w |-> W,
                   st |-> <<[Frame("partChannel", f.c) EXCEPT
                               !.name = Head(f.rest)], more>> \o rest]}
            ELSE {[w |-> W, st |-> <<more>> \o rest]}

(* rosella.go lines 164-170 and client.go lines 230-232: part every channel *)
(* of c.channelMap                                                          *)
partAll(W, f, rest) ==
    LET cand == (DOMAIN W.cl[f.c].channelMap) \ f.done
    IN IF cand = {}
       THEN {[w |-> W, st |-> rest]}
       ELSE {[w |-> W,
              st |-> <<[Frame("partChannel", f.c) EXCEPT
                          !.name = n, !.reason = f.reason],
                       [f EXCEPT !.done = @ \cup {n}]>> \o rest] : n \in cand}

(* relay without the test of rosella.go line 217: the sender is a recipient *)
relayAll(W, f, rest) ==
    LET m == W.chans[f.obj].clientMap
        cand == (DOMAIN m) \ f.done
    IN IF cand = {}
       THEN {[w |-> W, st |-> rest]}
       ELSE {[w |-> W,
              st |-> <<Reply(m[k], f.line),
                       [f EXCEPT !.done = @ \cup {k}]>> \o rest] : k \in cand}

(* rosella.go lines 216-220, 262-264, 270-272: a line to the members of a   *)
(* channel, the sender of a PRIVMSG left out                                *)
relay(W, f, rest) ==
    LET m == W.chans[f.obj].clientMap
        cand == (DOMAIN m) \ f.done
    IN IF cand = {}
       THEN {[w |-> W, st |-> rest]}
       ELSE {[w |-> W,
              st |-> (IF m[k] # f.c THEN <<Reply(m[k], f.line)>> ELSE <<>>)
                     \o <<[f EXCEPT !.done = @ \cup {k}]>> \o rest] : k \in cand}

(* rosella.go line 150 *)
setRegistered(W, f, rest) ==
    {[w |-> [W EXCEPT !.cl[f.c].registered = TRUE], st |-> rest]}

(* client.go lines 234-236: the end of clientThread's deferred function *)
teardownEnd(W, f, rest) ==
    {[w |-> [W EXCEPT !.clientMap = MapDel(@, W.cl[f.c].key)], st |-> rest]}

-----------------------------------------------------------------------------
(* Client.disconnect, lines 139-142: the flag, then the send on signalChan, *)
(* which waits while signalChan holds SignalCap signals                     *)

HasRoom(W, c) == W.sig[c] < SignalCap

Disconnected(W, c, why) ==
    [W EXCEPT !.cl[c].connected = FALSE,
              !.sig[c] = IF HasRoom(W, c) THEN @ + 1 ELSE @,
              !.cause[c] = @ \cup {why}]

disconnect(W, f, rest) ==
    {[w |-> Disconnected(W, f.c, f.why),
      st |-> IF HasRoom(W, f.c) THEN rest
             ELSE <<[f EXCEPT !.op = "signal"]>> \o rest]}

-----------------------------------------------------------------------------
(* The goroutines *)

(* One piece of handler code. *)
Exec(W, stk, f, rest) ==
    CASE f.op = "nickChannels" -> nickChannels(W, f, rest)
      [] f.op = "nickMembers" -> nickMembers(W, f, rest)
      [] f.op = "joinEach" -> joinEach(W, f, rest)
      [] f.op = "joinChannel" -> joinChannel(W, stk, f, rest)
      [] f.op = "joinMembers" -> joinMembers(W, f, rest)
      [] f.op = "joinNames" -> joinNames(W, f, rest)
      [] f.op = "partEach" -> partEach(W, f, rest)
      [] f.op = "partAll" -> partAll(W, f, rest)
      [] f.op = "partChannel" -> partChannel(W, f, rest)
      [] f.op = "partMembers" -> partMembers(W, f, rest)
      [] f.op = "relay" -> relay(W, f, rest)
      [] f.op = "registered" -> setRegistered(W, f, rest)
      [] f.op = "disconnect" -> disconnect(W, f, rest)
      [] f.op = "teardownEnd" -> teardownEnd(W, f, rest)
      [] OTHER -> {}

(* A goroutine waits in a send on an outputChan or on a signalChan. *)
Waits(st) == st # <<>> /\ Head(st).op \in {"send", "signal"}

(* Goroutine t runs the handler code st up to the next send that can wait,  *)
(* or to the end.                                                           *)
RECURSIVE Run(_, _, _)
Run(t, W, st) ==
    LET st1 == Norm(st, W.cl)
    IN IF st1 = <<>> \/ Waits(st1)
       THEN {[w |-> W, st |-> st1]}
       ELSE UNION {Run(t, r.w, r.st) :
                     r \in Exec(W, [stack EXCEPT ![t] = st1], Head(st1), Tail(st1))}

(* The shared state and goroutine t's remaining work after a step. *)
Commit(t, r) ==
    LET stk1 == [stack EXCEPT ![t] = r.st]
        W1 == Collect(r.w, stk1)
    IN /\ clientMap' = W1.clientMap
       /\ channelMap' = W1.channelMap
       /\ chans' = W1.chans
       /\ cl' = W1.cl
       /\ sig' = W1.sig
       /\ cause' = W1.cause
       /\ stack' = stk1

Idle == stack[Disp] = <<>>

(* rosella.go lines 90-100 and client.go lines 219-226.  The send of line   *)
(* 223 completes at once when the dispatcher waits in line 85 of            *)
(* rosella.go, and the reader and the writer start.                         *)
HandleConnection(c) ==
    /\ sup[c] = "absent"
    /\ lines[c] # <<>>    \* the connections that arrive have lines to send
    /\ cl' = [cl EXCEPT ![c] = NewClient]
    /\ sup' = [sup EXCEPT ![c] = IF Idle THEN "select" ELSE "start"]
    /\ rd' = [rd EXCEPT ![c] = IF Idle THEN "read" ELSE @]
    /\ wr' = [wr EXCEPT ![c] = IF Idle THEN "select" ELSE @]
    /\ UNCHANGED <<clientMap, channelMap, chans, stack, rline, sig, rsig, wsig,
                   writeChan, closed, lines, peer, wire, hprev, cause, hev,
                   hlog>>

(* client.go line 223 meets rosella.go line 85 after a wait *)
Connected(c) ==
    /\ sup[c] = "start"
    /\ Idle
    /\ sup' = [sup EXCEPT ![c] = "select"]
    /\ rd' = [rd EXCEPT ![c] = "read"]
    /\ wr' = [wr EXCEPT ![c] = "select"]
    /\ UNCHANGED <<clientMap, channelMap, chans, cl, stack, rline, sig, rsig,
                   wsig, writeChan, closed, lines, peer, wire, hprev, cause, hev,
                   hlog>>

(* client.go lines 267-286: a read returns a line while the dispatcher is   *)
(* inside handleEvent, and the reader waits in the send of line 284         *)
ReaderRead(c) ==
    /\ rd[c] = "read"
    /\ lines[c] # <<>>
    /\ ~Idle
    /\ \E input \in Head(lines[c]) :
          /\ rline' = [rline EXCEPT ![c] = input]
          /\ rd' = [rd EXCEPT ![c] = "post"]
    /\ lines' = [lines EXCEPT ![c] = Tail(@)]
    /\ UNCHANGED <<clientMap, channelMap, chans, cl, stack, sup, wr, sig, rsig,
                   wsig, writeChan, closed, peer, wire, hprev, cause,
                   hev, hlog>>

(* client.go lines 270-274: io.EOF, and disconnect *)
ReaderEOF(c) ==
    /\ rd[c] = "read"
    /\ peer[c].eof
    /\ cl' = Disconnected(World, c, "eof").cl
    /\ sig' = Disconnected(World, c, "eof").sig
    /\ cause' = Disconnected(World, c, "eof").cause
    /\ rd' = [rd EXCEPT ![c] = IF HasRoom(World, c) THEN "exit" ELSE "signal"]
    /\ UNCHANGED <<clientMap, channelMap, chans, stack, sup, wr, rline,
                   rsig, wsig, writeChan, closed, lines, peer, wire, hprev, hev, hlog>>

(* client.go lines 262-265: the read deadline passes and the select finds   *)
(* the stop signal                                                          *)
ReaderStop(c) ==
    /\ rd[c] = "read"
    /\ rsig[c] > 0
    /\ rsig' = [rsig EXCEPT ![c] = @ - 1]
    /\ rd' = [rd EXCEPT ![c] = "exit"]
    /\ UNCHANGED <<clientMap, channelMap, chans, cl, stack, sup, wr, rline,
                   sig, wsig, writeChan, closed, lines, peer, wire, hprev, cause, hev,
                   hlog>>

(* rosella.go line 85 receives what client.go line 284 sends: a line the    *)
(* reader waits to send, or one it reads now.  handleEvent runs to its      *)
(* first send that can wait.  The reader goes on to its next select.        *)
HandleEvent(c) ==
    /\ Idle
    /\ \E input \in IF rd[c] = "post" THEN {rline[c]}
                    ELSE IF rd[c] = "read" /\ lines[c] # <<>> THEN Head(lines[c])
                    ELSE {} :
          /\ LET h == handleEvent(World, c, input)
             IN \E r \in Run(Disp, h.w, h.st) : Commit(Disp, r)
          /\ hev' = [client |-> c, input |-> input,
                     before |-> [clientMap |-> clientMap,
                                 channelMap |-> channelMap,
                                 chans |-> chans, cl |-> cl, sup |-> sup]]
    /\ lines' = [lines EXCEPT ![c] = IF rd[c] = "read" THEN Tail(@) ELSE @]
    /\ rd' = [rd EXCEPT ![c] = IF rsig[c] > 0 THEN "exit" ELSE "read"]
    /\ rsig' = [rsig EXCEPT ![c] = IF @ > 0 THEN @ - 1 ELSE @]
    /\ hprev' = hev
    /\ hlog' = <<>>
    /\ rline' = [rline EXCEPT ![c] = NoInput]
    /\ UNCHANGED <<sup, wr, wsig, writeChan, closed, peer, wire>>

(* The supervisor's state once goroutine t has no handler code left. *)
Returned(t, st) == t \in Clients /\ sup[t] = "defer" /\ st = <<>>

(* writeChan <- line, with the line put ahead of the lines that wait *)
EnqueueFirst(q, line) == <<line>> \o q

(* client.go line 249: writeChan <- line *)
Enqueue(q, line) == Append(q, line)

(* client.go lines 247-253: the supervisor of c takes a line from           *)
(* outputChan, sent by the goroutine t inside reply, and hands it to        *)
(* writeChan or, when writeChan is full, calls disconnect.  t runs on to    *)
(* its next send that can wait.                                             *)
Forward(c, t) ==
    /\ sup[c] = "select"
    /\ stack[c] = <<>>
    /\ t # c
    /\ stack[t] # <<>>
    /\ Head(stack[t]).op = "send"
    /\ Head(stack[t]).to = c
    /\ LET line == Head(stack[t]).line
           full == Len(writeChan[c]) >= WriteChanCap
           W1 == IF full THEN Disconnected(World, c, "overflow") ELSE World
           mine == IF full /\ ~HasRoom(World, c) THEN <<Frame("signal", c)>>
                   ELSE <<>>
       IN /\ writeChan' = [writeChan EXCEPT
                             ![c] = IF full THEN @ ELSE Enqueue(@, line)]
          /\ \E r \in Run(t, W1, Tail(stack[t])) :
                LET stk1 == [stack EXCEPT ![t] = r.st, ![c] = mine]
                    W2 == Collect(r.w, stk1)
                IN /\ clientMap' = W2.clientMap
                   /\ channelMap' = W2.channelMap
                   /\ chans' = W2.chans
                   /\ cl' = W2.cl
                   /\ sig' = W2.sig
                   /\ cause' = W2.cause
                   /\ stack' = stk1
                   /\ sup' = IF Returned(t, r.st)
                             THEN [sup EXCEPT ![t] = "exit"] ELSE sup
                   /\ closed' = IF Returned(t, r.st)
                                THEN [closed EXCEPT ![t] = @ + 1] ELSE closed
          /\ hlog' = IF t = Disp
                     THEN Append(hlog, [to |-> c, line |-> line])
                     ELSE hlog
    /\ UNCHANGED <<rd, wr, rline, rsig, wsig, lines, peer, wire, hprev, hev>>

(* A reader or writer that has nothing left but to find the stop signal. *)
ReaderDone(c) == rd[c] = "read" /\ lines[c] = <<>> /\ ~peer[c].eof

WriterDone(c) ==
    wr[c] = "select" /\ (writeChan[c] = <<>> \/ (~peer[c].wok /\ ~peer[c].werr))

(* client.go lines 241-246, and the deferred function of lines 228-237 up   *)
(* to its first send that can wait                                          *)
Stop(c) ==
    /\ sup[c] = "select"
    /\ stack[c] = <<>>
    /\ sig[c] > 0
    /\ rsig' = [rsig EXCEPT ![c] = IF ReaderDone(c) THEN @ ELSE @ + 1]
    /\ wsig' = [wsig EXCEPT ![c] = IF WriterDone(c) THEN @ ELSE @ + 1]
    /\ rd' = [rd EXCEPT ![c] = IF ReaderDone(c) THEN "exit" ELSE @]
    /\ wr' = [wr EXCEPT ![c] = IF WriterDone(c) THEN "exit" ELSE @]
    /\ \E r \in Run(c, [World EXCEPT !.sig[c] = @ - 1],
                    <<[Frame("partAll", c) EXCEPT !.reason = <<"Disconnecting">>],
                      Frame("teardownEnd", c)>>) :
          /\ Commit(c, r)
          /\ sup' = [sup EXCEPT ![c] = IF r.st = <<>> THEN "exit" ELSE "defer"]
          /\ closed' = [closed EXCEPT ![c] = IF r.st = <<>> THEN @ + 1 ELSE @]
    /\ UNCHANGED <<rline, writeChan, lines, peer, wire, hprev, hev, hlog>>

(* client.go line 141: a send on signalChan that had to wait completes, in  *)
(* the dispatcher or a supervisor (t), the reader or the writer of c        *)
SignalSent(c) ==
    /\ HasRoom(World, c)
    /\ \/ \E t \in Threads :
             /\ stack[t] # <<>>
             /\ Head(stack[t]).op = "signal"
             /\ Head(stack[t]).c = c
             /\ \E r \in Run(t, [World EXCEPT !.sig[c] = @ + 1], Tail(stack[t])) :
                   /\ Commit(t, r)
                   /\ sup' = IF Returned(t, r.st)
                             THEN [sup EXCEPT ![t] = "exit"] ELSE sup
                   /\ closed' = IF Returned(t, r.st)
                                THEN [closed EXCEPT ![t] = @ + 1] ELSE closed
             /\ UNCHANGED <<rd, wr>>
       \/ /\ rd[c] = "signal"
          /\ rd' = [rd EXCEPT ![c] = "exit"]
          /\ sig' = [sig EXCEPT ![c] = @ + 1]
          /\ UNCHANGED <<clientMap, channelMap, chans, cl, stack, sup, wr,
                         closed, cause>>
       \/ /\ wr[c] = "signal"
          /\ wr' = [wr EXCEPT ![c] = "exit"]
          /\ sig' = [sig EXCEPT ![c] = @ + 1]
          /\ UNCHANGED <<clientMap, channelMap, chans, cl, stack, sup, rd,
                         closed, cause>>
    /\ UNCHANGED <<rline, rsig, wsig, writeChan, lines, peer, wire, hprev, hev, hlog>>

(* client.go lines 298-303: a line is written, or the write fails and the   *)
(* writer calls disconnect                                                  *)
WriterWrite(c) ==
    /\ wr[c] = "select"
    /\ writeChan[c] # <<>>
    /\ writeChan' = [writeChan EXCEPT ![c] = Tail(@)]
    /\ \/ /\ peer[c].wok
          /\ wire' = [wire EXCEPT ![c] = Append(@, Head(writeChan[c]))]
          /\ UNCHANGED <<wr, cl, sig, cause>>
       \/ /\ peer[c].werr
          /\ UNCHANGED wire
          /\ cl' = Disconnected(World, c, "werr").cl
          /\ sig' = Disconnected(World, c, "werr").sig
          /\ cause' = Disconnected(World, c, "werr").cause
          /\ wr' = [wr EXCEPT ![c] = IF HasRoom(World, c) THEN "exit" ELSE "signal"]
    /\ UNCHANGED <<clientMap, channelMap, chans, stack, sup, rd, rline,
                   rsig, wsig, closed, lines, peer, hprev, hev, hlog>>

(* client.go lines 294-297 *)
WriterStop(c) ==
    /\ wr[c] = "select"
    /\ wsig[c] > 0
    /\ wsig' = [wsig EXCEPT ![c] = @ - 1]
    /\ wr' = [wr EXCEPT ![c] = "exit"]
    /\ UNCHANGED <<clientMap, channelMap, chans, cl, stack, sup, rd, rline,
                   sig, rsig, writeChan, closed, lines, peer, wire, hprev, cause, hev,
                   hlog>>

Next ==
    \/ \E c \in Clients : HandleConnection(c)
    \/ \E c \in Clients : Connected(c)
    \/ \E c \in Clients : ReaderRead(c)
    \/ \E c \in Clients : ReaderEOF(c)
    \/ \E c \in Clients : ReaderStop(c)
    \/ \E c \in Clients : HandleEvent(c)
    \/ \E c \in Clients, t \in Threads : Forward(c, t)
    \/ \E c \in Clients : Stop(c)
    \/ \E c \in Clients : SignalSent(c)
    \/ \E c \in Clients : WriterWrite(c)
    \/ \E c \in Clients : WriterStop(c)

-----------------------------------------------------------------------------
(* Initial states *)

X == <<"#", "x">>

Y == <<"#", "y">>

Nick(n) == Cmd("NICK", <<n>>)

Hi == <<"h", "i">>

Yo == <<"y", "o">>

NoEvent ==
    [client |-> "", input |-> NoInput,
     before |-> [clientMap |-> EmptyMap, channelMap |-> EmptyMap,
                 chans |-> [o \in ObjIds |-> NoChan],
                 cl |-> [c \in Clients |-> NoClient],
                 sup |-> [c \in Clients |-> "absent"]]]

(* A state of the running server: the clients of S.present are accepted and *)
(* their three goroutines run, S.nick and S.reg are the nicks given and the *)
(* registrations made, S.member the members of each channel in the order   *)
(* they joined (the first created the channel), S.queue the number of lines *)
(* relayed to a client that its writer has not written yet.                 *)
Setup(S) ==
    LET names == DOMAIN S.member
        id(n) == Cardinality({m \in names : S.member[m] # <<>> /\
                                 (m = n \/ m = X)})
        live == {n \in names : S.member[n] # <<>>}
        key(c) == ToLower(S.nick[c])
        members(n) == {S.member[n][i] : i \in 1..Len(S.member[n])}
    IN /\ clientMap = [k \in {key(c) : c \in {d \in S.present : S.nick[d] # <<>>}}
                          |-> CHOOSE c \in S.present : key(c) = k]
       /\ channelMap = [n \in live |-> id(n)]
       /\ chans = [o \in ObjIds |->
                     IF \E n \in live : id(n) = o
                     THEN LET n == CHOOSE m \in live : id(m) = o
                          IN [name |-> n, topic |-> <<>>,
                              clientMap |-> [k \in {key(c) : c \in members(n)} |->
                                               CHOOSE c \in members(n) : key(c) = k],
                              modeMap |-> [k \in {key(c) : c \in members(n)} |->
                                             IF k = key(S.member[n][1])
                                             THEN "operator" ELSE "plain"],
                              noExternal |-> TRUE]
                     ELSE NoChan]
       /\ cl = [c \in Clients |->
                  IF c \in S.present
                  THEN [nick |-> S.nick[c], key |-> key(c),
                        registered |-> c \in S.reg, connected |-> TRUE,
                        channelMap |-> [n \in {m \in live : c \in members(m)}
                                           |-> id(n)]]
                  ELSE NoClient]
       /\ stack = [t \in Threads |-> <<>>]
       /\ sup = [c \in Clients |-> IF c \in S.present THEN "select" ELSE "absent"]
       /\ rd = [c \in Clients |-> IF c \in S.present THEN "read" ELSE "off"]
       /\ wr = [c \in Clients |-> IF c \in S.present THEN "select" ELSE "off"]
       /\ rline = [c \in Clients |-> NoInput]
       /\ sig = [c \in Clients |-> 0]
       /\ rsig = [c \in Clients |-> 0]
       /\ wsig = [c \in Clients |-> 0]
       /\ writeChan = [c \in Clients |->
                         [i \in 1..S.queue[c] |-> Line("rplMsg", <<"b">>, X, Hi)]]
       /\ closed = [c \in Clients |-> 0]
       /\ lines = S.lines
       /\ peer = S.peer
       /\ cause = [c \in Clients |-> {}]
       /\ wire = [c \in Clients |-> <<>>]
       /\ hev = NoEvent
       /\ hprev = NoEvent
       /\ hlog = <<>>

(* What a remote end does: close its side, accept writes, fail writes. *)
Peer(eof, wok, werr) == [eof |-> eof, wok |-> wok, werr |-> werr]

(* A remote end that has connected, or will, and does nothing else. *)
Silent == Peer(FALSE, FALSE, FALSE)

MaxLines == 2

Times(n, menu) == [i \in 1..n |-> menu]

(* The server after construction; two connections arrive. *)
Fresh ==
    [present |-> {},
     nick |-> [c \in Clients |-> <<>>],
     reg |-> {},
     member |-> [n \in {X, Y} |-> <<>>],
     lines |-> [c \in Clients |->
                  IF c = "c1"
                  THEN Times(MaxLines, {Nick(<<"a">>), Cmd("USER", <<>>),
                                        Cmd("JOIN", <<X>>)})
                  ELSE IF c = "c2"
                  THEN Times(MaxLines, {Nick(<<"A">>), Cmd("USER", <<>>),
                                        Cmd("QUIT", <<>>)})
                  ELSE <<>>],
     peer |-> [c \in Clients |->
                 IF c = "c1" THEN Peer(TRUE, FALSE, FALSE)
                 ELSE IF c = "c2" THEN Peer(FALSE, TRUE, TRUE)
                 ELSE Silent],
     queue |-> [c \in Clients |-> 0]]

(* c1 (a) and c3 (b) are registered and share #x and #y; c2 has connected   *)
(* and sends NICK A, USER and PART or JOIN; c1 changes its nick.            *)
Room ==
    [present |-> Clients,
     nick |-> [c \in Clients |->
                 IF c = "c1" THEN <<"a">> ELSE IF c = "c3" THEN <<"b">> ELSE <<>>],
     reg |-> {"c1", "c3"},
     member |-> [n \in {X, Y} |-> IF n = X THEN <<"c1", "c3">> ELSE <<"c3", "c1">>],
     lines |-> [c \in Clients |->
                  IF c = "c1"
                  THEN <<{Nick(<<"A">>), Nick(<<"e">>)}>>
                  ELSE IF c = "c2"
                  THEN <<{Nick(<<"A">>)}, {Cmd("USER", <<>>)},
                         {Cmd("PART", <<X \o <<",">> \o Y>>), Cmd("JOIN", <<X>>)}>>
                  ELSE <<>>],
     peer |-> [c \in Clients |-> Silent],
     queue |-> [c \in Clients |-> 0]]

(* c1 (a) and c2 (b) are registered members of #x.  c1 sends QUIT and then  *)
(* one more command and closes; c2 changes its nick, and its writes may     *)
(* fail.                                                                    *)
Leave ==
    [present |-> {"c1", "c2"},
     nick |-> [c \in Clients |->
                 IF c = "c1" THEN <<"a">> ELSE IF c = "c2" THEN <<"b">> ELSE <<>>],
     reg |-> {"c1", "c2"},
     member |-> [n \in {X, Y} |-> IF n = X THEN <<"c1", "c2">> ELSE <<>>],
     lines |-> [c \in Clients |->
                  IF c = "c1"
                  THEN <<{Cmd("QUIT", <<>>)}, {Nick(<<"e">>), Cmd("JOIN", <<Y>>)}>>
                  ELSE IF c = "c2"
                  THEN <<{Nick(<<"r">>), Cmd("JOIN", <<<<"0">>>>)}>>
                  ELSE <<>>],
     peer |-> [c \in Clients |->
                 IF c = "c1" THEN Peer(TRUE, FALSE, FALSE)
                 ELSE IF c = "c2" THEN Peer(FALSE, TRUE, TRUE)
                 ELSE Silent],
     queue |-> [c \in Clients |-> 0]]

(* c1 sends more QUIT lines than signalChan holds and closes, and the one   *)
(* line queued for it fails to be written.                                  *)
Flood ==
    [present |-> {"c1"},
     nick |-> [c \in Clients |-> IF c = "c1" THEN <<"a">> ELSE <<>>],
     reg |-> {"c1"},
     member |-> [n \in {X, Y} |-> <<>>],
     lines |-> [c \in Clients |->
                  IF c = "c1" THEN Times(SignalCap + 1, {Cmd("QUIT", <<>>)})
                  ELSE <<>>],
     peer |-> [c \in Clients |->
                 IF c = "c1" THEN Peer(TRUE, FALSE, TRUE) ELSE Silent],
     queue |-> [c \in Clients |-> IF c = "c1" THEN 1 ELSE 0]]

(* c1 (a), c2 (b) and c3 (e) are registered members of #x; the writer of c1 *)
(* has WriteChanCap lines waiting for a remote end that takes none.  c2     *)
(* sends a message to #x and then QUIT.                                     *)
Slow ==
    [present |-> Clients,
     nick |-> [c \in Clients |->
                 IF c = "c1" THEN <<"a">> ELSE IF c = "c2" THEN <<"b">> ELSE <<"e">>],
     reg |-> Clients,
     member |-> [n \in {X, Y} |-> IF n = X THEN <<"c1", "c2", "c3">> ELSE <<>>],
     lines |-> [c \in Clients |->
                  IF c = "c2"
                  THEN <<{Cmd("PRIVMSG", <<X, Hi>>)}, {Cmd("QUIT", <<>>)}>>
                  ELSE <<>>],
     peer |-> [c \in Clients |->
                 IF c = "c1" THEN Peer(FALSE, FALSE, TRUE) ELSE Silent],
     queue |-> [c \in Clients |-> IF c = "c1" THEN WriteChanCap ELSE 0]]

(* c1 (a) and c2 (b) are registered and in no channel; both join and part  *)
(* #x and #y, c1 changes the case of its nick, c2 quits or closes.          *)
Chat ==
    [present |-> {"c1", "c2"},
     nick |-> [c \in Clients |->
                 IF c = "c1" THEN <<"a">> ELSE IF c = "c2" THEN <<"b">> ELSE <<>>],
     reg |-> {"c1", "c2"},
     member |-> [n \in {X, Y} |-> <<>>],
     lines |-> [c \in Clients |->
                  IF c = "c1"
                  THEN <<{Cmd("JOIN", <<X>>), Cmd("JOIN", <<X \o <<",">> \o Y>>)},
                         {Cmd("PART", <<X>>), Cmd("JOIN", <<<<"0">>>>),
                          Nick(<<"A">>)}>>
                  ELSE IF c = "c2"
                  THEN <<{Cmd("JOIN", <<X>>)},
                         {Cmd("PART", <<X>>), Cmd("QUIT", <<>>)}>>
                  ELSE <<>>],
     peer |-> [c \in Clients |->
                 IF c = "c2" THEN Peer(TRUE, FALSE, FALSE) ELSE Silent],
     queue |-> [c \in Clients |-> 0]]

(* c1 (a), c2 (b) and c3 (e) are registered members of #x.  c1 sends two    *)
(* messages to #x and may close, c3 sends one; c2's writes succeed or fail. *)
Talk ==
    [present |-> Clients,
     nick |-> [c \in Clients |->
                 IF c = "c1" THEN <<"a">> ELSE IF c = "c2" THEN <<"b">> ELSE <<"e">>],
     reg |-> Clients,
     member |-> [n \in {X, Y} |-> IF n = X THEN <<"c1", "c2", "c3">> ELSE <<>>],
     lines |-> [c \in Clients |->
                  IF c = "c1"
                  THEN <<{Cmd("PRIVMSG", <<X, Hi>>)}, {Cmd("PRIVMSG", <<X, Yo>>)}>>
                  ELSE IF c = "c3"
                  THEN <<{Cmd("PRIVMSG", <<X, Hi>>)}>>
                  ELSE <<>>],
     peer |-> [c \in Clients |->
                 IF c = "c1" THEN Peer(TRUE, FALSE, FALSE)
                 ELSE IF c = "c2" THEN Peer(FALSE, TRUE, TRUE)
                 ELSE Silent],
     queue |-> [c \in Clients |-> 0]]

(* c1 (a), c2 (b) and c3 (e) are registered; c2 is the member of #x, c1 and *)
(* c3 are the members of #y.  c1 joins a channel, parts all or changes its  *)
(* nick and then parts a channel or takes its nick back; c2 asks for the    *)
(* nick A, parts #y and may close.                                          *)
Trip ==
    [present |-> Clients,
     nick |-> [c \in Clients |->
                 IF c = "c1" THEN <<"a">> ELSE IF c = "c2" THEN <<"b">> ELSE <<"e">>],
     reg |-> Clients,
     member |-> [n \in {X, Y} |-> IF n = X THEN <<"c2">> ELSE <<"c3", "c1">>],
     lines |-> [c \in Clients |->
                  IF c = "c1"
                  THEN <<{Cmd("JOIN", <<X>>), Cmd("JOIN", <<Y>>), Nick(<<"r">>),
                          Cmd("JOIN", <<<<"0">>>>)},
                         {Cmd("PART", <<X>>), Cmd("PART", <<Y>>), Nick(<<"a">>)}>>
                  ELSE IF c = "c2"
                  THEN <<{Nick(<<"A">>)}, {Cmd("PART", <<Y>>)}>>
                  ELSE <<>>],
     peer |-> [c \in Clients |->
                 IF c = "c2" THEN Peer(TRUE, FALSE, FALSE) ELSE Silent],
     queue |-> [c \in Clients |-> 0]]

(* c1 (a) is registered and the member of #x; c2 has the nick b and has not *)
(* sent USER; it sends one command.                                         *)
Gate ==
    [present |-> {"c1", "c2"},
     nick |-> [c \in Clients |->
                 IF c = "c1" THEN <<"a">> ELSE IF c = "c2" THEN <<"b">> ELSE <<>>],
     reg |-> {"c1"},
     member |-> [n \in {X, Y} |-> IF n = X THEN <<"c1">> ELSE <<>>],
     lines |-> [c \in Clients |->
                  IF c = "c2"
                  THEN <<{Cmd("JOIN", <<X>>), Cmd("PART", <<X>>),
                          Cmd("PRIVMSG", <<X, Hi>>), Cmd("TOPIC", <<X, Hi>>),
                          Cmd("LIST", <<>>), Cmd("QUIT", <<>>),
                          Nick(name), Nick(<<"R">> \o Tail(name))}>>
                  ELSE <<>>],
     peer |-> [c \in Clients |-> Silent],
     queue |-> [c \in Clients |-> 0]]

(* c1 (a) and c3 (e) are the members of #x, c2 (b) is registered and in no  *)
(* channel.  c1 sets the topic of #x or parts it, c2 joins #x or #y, c3 may *)
(* close.                                                                   *)
Enter ==
    [present |-> Clients,
     nick |-> [c \in Clients |->
                 IF c = "c1" THEN <<"a">> ELSE IF c = "c2" THEN <<"b">> ELSE <<"e">>],
     reg |-> Clients,
     member |-> [n \in {X, Y} |-> IF n = X THEN <<"c1", "c3">> ELSE <<>>],
     lines |-> [c \in Clients |->
                  IF c = "c1"
                  THEN <<{Cmd("TOPIC", <<X, <<":">> \o Hi>>), Cmd("PART", <<X>>),
                          Cmd("JOIN", <<X>>)}>>
                  ELSE IF c = "c2"
                  THEN <<{Cmd("JOIN", <<X>>), Cmd("JOIN", <<Y>>),
                          Cmd("PRIVMSG", <<X, Hi>>)}>>
                  ELSE <<>>],
     peer |-> [c \in Clients |->
                 IF c = "c3" THEN Peer(TRUE, FALSE, FALSE) ELSE Silent],
     queue |-> [c \in Clients |-> 0]]

Scenarios == {Fresh, Room, Chat, Leave, Flood, Slow, Talk, Trip, Gate, Enter}

Init == \E S \in Scenarios : Setup(S)

Spec == Init /\ [][Next]_vars

-----------------------------------------------------------------------------
(* Properties *)

Members(o) == Range(chans[o].clientMap)

(* The channels of channelMap that have session c in their member table. *)
ChannelsOf(c) == {n \in DOMAIN channelMap : c \in Members(channelMap[n])}

(* No handler and no deferred teardown has steps left. *)
Quiescent == Idle /\ \A c \in Clients : sup[c] # "defer"

(* Goroutine t waits in a send on the outputChan of a client whose          *)
(* supervisor has left its select loop and receives nothing any more.       *)
WaitsForGone(t) ==
    /\ stack[t] # <<>>
    /\ Head(stack[t]).op = "send"
    /\ sup[Head(stack[t]).to] \in {"defer", "exit"}

(* C1: no two distinct connected sessions that have a nick hold the same    *)
(* case-folded key, whatever NICK commands were handled.                    *)
C1_NickUnique ==
    \A c, d \in Clients :
        (c # d /\ cl[c].connected /\ cl[d].connected
              /\ cl[c].nick # <<>> /\ cl[d].nick # <<>>)
            => cl[c].key # cl[d].key

(* C2: between two events every clientMap entry k -> S has S.key = k and S  *)
(* connected, and every connected session with a nick is the entry of its   *)
(* key.                                                                     *)
C2_ClientMapEntries ==
    Idle =>
        /\ \A k \in DOMAIN clientMap :
              cl[clientMap[k]].key = k /\ cl[clientMap[k]].connected
        /\ \A c \in Clients :
              (cl[c].connected /\ cl[c].nick # <<>>)
                  => (cl[c].key \in DOMAIN clientMap /\ clientMap[cl[c].key] = c)

C4_MembershipConsistent ==
    Idle =>
        \A n \in DOMAIN channelMap :
            LET ch == chans[channelMap[n]]
            IN \A k \in DOMAIN ch.clientMap :
                  /\ cl[ch.clientMap[k]].key = k
                  /\ n \in DOMAIN cl[ch.clientMap[k]].channelMap
                  /\ cl[ch.clientMap[k]].channelMap[n] = channelMap[n]
                  /\ k \in DOMAIN ch.modeMap
                  /\ ch.modeMap[k] # "nil"

(* The NICK of event e passes the checks of handleEvent and reaches setNick. *)
Accepted(e) ==
    /\ e.input.verb = "NICK"
    /\ Len(e.input.args) >= 1
    /\ nickRegexp(e.input.args[1])
    /\ e.input.args[1] \notin DOMAIN e.before.clientMap
    /\ e.input.args[1] # name

(* Sessions a and b were members of one channel when event e was taken. *)
Shared(e, a, b) ==
    \E n \in DOMAIN e.before.channelMap :
        {a, b} \subseteq Range(e.before.chans[e.before.channelMap[n]].clientMap)

(* The number of rplNickChange lines the handler of hev enqueued to b. *)
NickChanges(b) ==
    Cardinality({i \in 1..Len(hlog) :
                    hlog[i].to = b /\ hlog[i].line.code = "rplNickChange"})

(* C5: when the handler of an accepted NICK of session A has returned, A    *)
(* (if still connected) was sent one rplNickChange, every other session     *)
(* still connected that shared a channel with A was sent one, and every     *)
(* session that shared no channel with A was sent none.                     *)
C5_NickNotifications ==
    (Idle /\ Accepted(hev)) =>
        LET A == hev.client
        IN /\ cl[A].connected => NickChanges(A) = 1
           /\ \A B \in Clients \ {A} :
                 /\ (cl[B].connected /\ Shared(hev, A, B)) => NickChanges(B) = 1
                 /\ ~Shared(hev, A, B) => NickChanges(B) = 0

(* C6: the deferred teardown of a session is never in progress while the    *)
(* dispatcher is inside a handler.                                          *)
C6_TeardownNotConcurrent ==
    \A c \in Clients : sup[c] = "defer" => Idle

(* C7: the dispatcher never waits in a reply for a session whose supervisor *)
(* has stopped receiving.                                                   *)
C7_DispatcherNeverBlocks == ~WaitsForGone(Disp)

(* C8: once the teardown of a session has run, the session has no clientMap *)
(* entry and is in the member table of no channel.                          *)
C8_RemovalPermanent ==
    \A c \in Clients :
        sup[c] = "exit" => (c \notin Range(clientMap) /\ ChannelsOf(c) = {})

(* C9: when nothing more can happen, every session that was disconnected    *)
(* for a full writeChan is out of clientMap and out of every channel.       *)
C9_Backpressure ==
    (~ENABLED Next) =>
        \A c \in Clients :
            "overflow" \in cause[c]
                => (c \notin Range(clientMap) /\ ChannelsOf(c) = {})

(* C10: when nothing more can happen, every session whose disconnect was    *)
(* called (QUIT, EOF, write error, overflow) has its reader and its writer  *)
(* exited and its teardown run.                                             *)
C10_CancellationCompletes ==
    (~ENABLED Next) =>
        \A c \in Clients :
            cause[c] # {}
                => (sup[c] = "exit" /\ rd[c] = "exit" /\ wr[c] = "exit")

(* The rplMsg line that carries text from the session with nick a to #x. *)
FromA(text) == Line("rplMsg", <<"a">>, X, text)

(* C11: session a sends hi and then yo to #x; on every connection that both *)
(* lines are written to, hi is written before yo.                           *)
C11_MessageOrder ==
    \A B \in Clients :
        \A i, j \in 1..Len(wire[B]) :
            (wire[B][i] = FromA(Hi) /\ wire[B][j] = FromA(Yo)) => i < j

(* C11, its case: both messages of a have been written to one connection,   *)
(* with a line of another sender among the lines written to it.             *)
C11_BothWritten ==
    \E B \in Clients :
        /\ \E i \in 1..Len(wire[B]) : wire[B][i] = FromA(Hi)
        /\ \E i \in 1..Len(wire[B]) : wire[B][i] = FromA(Yo)
        /\ \E i \in 1..Len(wire[B]) : wire[B][i].a0 = <<"e">>

(* The channel directory: the channels of a channelMap with the member and  *)
(* the mode table of each.                                                  *)
Directory(cm, chs) ==
    [n \in DOMAIN cm |-> [clientMap |-> chs[cm[n]].clientMap,
                          modeMap |-> chs[cm[n]].modeMap]]

(* No session has entered or left its teardown since the state b. *)
NoTeardownSince(b) ==
    \A d \in Clients : sup[d] = b.sup[d] /\ sup[d] # "defer"

(* The last two events handled were JOIN n and then PART n of one session   *)
(* that was registered, and both handlers have returned.                    *)
JoinThenPart(n) ==
    /\ Idle
    /\ hprev.input = Cmd("JOIN", <<n>>)
    /\ hev.input = Cmd("PART", <<n>>)
    /\ hev.client = hprev.client
    /\ hprev.before.cl[hprev.client].registered
    /\ NoTeardownSince(hprev.before)

(* Channel n had an entry under the key of the session of the JOIN. *)
HadEntry(n) ==
    /\ n \in DOMAIN hprev.before.channelMap
    /\ hprev.before.cl[hprev.client].key
          \in DOMAIN hprev.before.chans[hprev.before.channelMap[n]].clientMap

NickThenBack ==
    /\ Idle
    /\ hprev.input.verb = "NICK" /\ Len(hprev.input.args) = 1
    /\ hev.client = hprev.client
    /\ hprev.before.cl[hprev.client].nick # <<>>
    /\ hev.input = Nick(hprev.before.cl[hprev.client].nick)
    /\ nickRegexp(hprev.input.args[1])
    /\ ToLower(hprev.input.args[1]) \notin DOMAIN hprev.before.clientMap
    /\ ToLower(hprev.input.args[1]) # name
    /\ NoTeardownSince(hprev.before)

(* C13: NICK b then NICK a of a session whose nick was a leaves clientMap   *)
(* as it was, and the session under key a with its mode of before in every  *)
(* channel it belongs to.                                                   *)
C13_NickRoundTrip ==
    NickThenBack =>
        LET c == hev.client
            b == hprev.before
            k == b.cl[c].key
        IN /\ clientMap = b.clientMap
           /\ \A n \in DOMAIN b.cl[c].channelMap :
                 LET o == b.cl[c].channelMap[n]
                 IN /\ k \in DOMAIN chans[o].clientMap
                    /\ chans[o].clientMap[k] = c
                    /\ k \in DOMAIN b.chans[o].modeMap
                          => (k \in DOMAIN chans[o].modeMap
                                /\ chans[o].modeMap[k] = b.chans[o].modeMap[k])

(* C13 where the session was the clientMap entry of its key before. *)
C13_NickRoundTripOwnEntry ==
    (NickThenBack
       /\ hprev.before.cl[hev.client].key \in DOMAIN hprev.before.clientMap
       /\ hprev.before.clientMap[hprev.before.cl[hev.client].key] = hev.client)
        => C13_NickRoundTrip

(* The number of lines the handler of hev enqueued to session b. *)
Enqueued(b) == Cardinality({i \in 1..Len(hlog) : hlog[i].to = b})

(* The number of those that are the line l. *)
EnqueuedLine(b, l) ==
    Cardinality({i \in 1..Len(hlog) : hlog[i].to = b /\ hlog[i].line = l})

(* The handler of a PRIVMSG of a registered session to a channel that       *)
(* exists has returned.                                                     *)
RelayDone ==
    /\ Idle
    /\ hev.input.verb = "PRIVMSG"
    /\ Len(hev.input.args) >= 2
    /\ hev.before.cl[hev.client].registered
    /\ hev.input.args[1] \in DOMAIN hev.before.channelMap

(* The members channel n had when hev was taken. *)
MembersBefore(n) == Range(hev.before.chans[hev.before.channelMap[n]].clientMap)

(* C14: after a PRIVMSG of registered session A to channel C, every member  *)
(* of C other than A that is connected was enqueued exactly one rplMsg with *)
(* A's nick and the text and nothing else, and A and every session that is  *)
(* not a member were enqueued nothing.                                      *)
C14_ChannelRelay ==
    RelayDone =>
        LET A == hev.client
            n == hev.input.args[1]
            msg == Line("rplMsg", hev.before.cl[A].nick, n,
                        Join(Tail(hev.input.args), <<" ">>))
        IN /\ Enqueued(A) = 0
           /\ \A B \in Clients \ {A} :
                 /\ (B \in MembersBefore(n) /\ cl[B].connected)
                        => (EnqueuedLine(B, msg) = 1 /\ Enqueued(B) = 1)
                 /\ B \notin MembersBefore(n) => Enqueued(B) = 0
                 /\ Enqueued(B) = EnqueuedLine(B, msg)

(* C14, its case: a member of #x sent a message to #x and two other members *)
(* were enqueued it.                                                        *)
C14_Relayed ==
    /\ RelayDone
    /\ hev.input.args[1] = X
    /\ hev.client \in MembersBefore(X)
    /\ Cardinality({B \in MembersBefore(X) \ {hev.client} : Enqueued(B) = 1}) = 2

(* The handler of an event of a session that was not registered has         *)
(* returned, and no teardown ran meanwhile.                                 *)
UnregisteredDone ==
    /\ Idle
    /\ hev.client \in Clients
    /\ ~hev.before.cl[hev.client].registered
    /\ NoTeardownSince(hev.before)

(* The gated commands of an unregistered session are answered with          *)
(* errNotReg only and change nothing.                                       *)
GateHolds ==
    (UnregisteredDone
       /\ hev.input.verb \in {"JOIN", "PART", "PRIVMSG", "TOPIC", "LIST"})
        => /\ \A i \in 1..Len(hlog) :
                 hlog[i].to = hev.client /\ hlog[i].line.code = "errNotReg"
           /\ cl[hev.client].connected => Len(hlog) = 1
           /\ clientMap = hev.before.clientMap
           /\ channelMap = hev.before.channelMap
           /\ chans = hev.before.chans
           /\ \A c \in Clients : cl[c].channelMap = hev.before.cl[c].channelMap

(* A session that is not registered is a member of no channel. *)
UnregisteredNoMember ==
    \A c \in Clients : ~cl[c].registered => ChannelsOf(c) = {}

(* The QUIT of an unregistered session makes the call of disconnect. *)
QuitUngated ==
    (UnregisteredDone /\ hev.input.verb = "QUIT") => "quit" \in cause[hev.client]

(* C15: for a session that is not registered, JOIN, PART, PRIVMSG, TOPIC    *)
(* and LIST are answered with errNotReg only and change nothing, such a     *)
(* session is a member of no channel, and its QUIT begins its disconnect.   *)
C15_PreRegistrationGate == GateHolds /\ UnregisteredNoMember /\ QuitUngated

(* The lines the handler of hev enqueued to session b, in their order. *)
LinesTo(b) ==
    LET To(e) == e.to = b
        sent == SelectSeq(hlog, To)
    IN [i \in 1..Len(sent) |-> sent[i].line]

(* The handler of a JOIN of one channel name n by a registered session that *)
(* was not a member of n has returned, the session still connected.         *)
JoinDone(n) ==
    /\ Idle
    /\ hev.input = Cmd("JOIN", <<n>>)
    /\ hev.before.cl[hev.client].registered
    /\ n \in DOMAIN hev.before.channelMap => hev.client \notin MembersBefore(n)
    /\ cl[hev.client].connected
    /\ NoTeardownSince(hev.before)

(* What the handler of the JOIN n of hev enqueued is what a join enqueues. *)
JoinReplies(n) ==
            LET A == hev.client
                nick == hev.before.cl[A].nick
                mine == LinesTo(A)
                k == Len(mine)
                existed == n \in DOMAIN hev.before.channelMap
                topic == IF existed
                         THEN hev.before.chans[hev.before.channelMap[n]].topic
                         ELSE <<>>
                now == chans[channelMap[n]]
            IN /\ k >= 4
               /\ mine[1] = Line("rplJoin", nick, n, <<>>)
               /\ mine[2] = IF topic # <<>>
                            THEN Line("rplTopic", n, topic, <<>>)
                            ELSE Line("rplNoTopic", n, <<>>, <<>>)
               /\ \A i \in 3..(k - 1) : mine[i].code = "rplNames" /\ mine[i].a0 = n
               /\ mine[k] = Line("rplEndOfNames", n, <<>>, <<>>)
               /\ UNION {DOMAIN mine[i].a1 : i \in 3..(k - 1)} = DOMAIN now.clientMap
               /\ \A i, j \in 3..(k - 1) :
                     i # j => (DOMAIN mine[i].a1) \cap (DOMAIN mine[j].a1) = {}
               /\ \A i \in 3..(k - 1) : \A key \in DOMAIN mine[i].a1 :
                     \E pre \in {<<>>, <<"@">>} :
                         mine[i].a1[key] = pre \o cl[now.clientMap[key]].nick
               /\ ~existed => mine[3].a1[cl[A].key] = <<"@">> \o nick
               /\ \A B \in Clients \ {A} :
                     /\ (existed /\ B \in MembersBefore(n) /\ cl[B].connected)
                            => LinesTo(B) = <<Line("rplJoin", nick, n, <<>>)>>
                     /\ ~(existed /\ B \in MembersBefore(n)) => LinesTo(B) = <<>>
                     /\ Len(LinesTo(B)) <= 1

(* C16: the lines enqueued to a session A that joined channel n are rplJoin, *)
(* rplTopic or rplNoTopic by the topic, one or more rplNames and            *)
(* rplEndOfNames, in this order; every other connected member was enqueued  *)
(* one rplJoin; the rplNames lines name every member once, the creator of a *)
(* new channel with the prefix @.                                           *)
C16_JoinReplyOrder == \A n \in {X, Y} : JoinDone(n) => JoinReplies(n)

(* C16 where the member table of n had no entry under the key of A. *)
C16_JoinReplyOrderFreeKey ==
    \A n \in {X, Y} :
        (JoinDone(n)
           /\ (n \in DOMAIN hev.before.channelMap
                 => hev.before.cl[hev.client].key
                       \notin DOMAIN hev.before.chans[hev.before.channelMap[n]].clientMap))
            => JoinReplies(n)

(* C16, its case: a session joined #x, which had a topic and two members    *)
(* that were each enqueued the rplJoin.                                     *)
C16_JoinedWithTopic ==
    /\ JoinDone(X)
    /\ X \in DOMAIN hev.before.channelMap
    /\ hev.before.chans[hev.before.channelMap[X]].topic # <<>>
    /\ Cardinality({B \in MembersBefore(X) : Len(LinesTo(B)) = 1}) = 2

(* The handler of a JOIN 0 of a registered session has returned. *)
JoinZeroDone ==
    /\ Idle
    /\ hev.input = Cmd("JOIN", <<<<"0">>>>)
    /\ hev.before.cl[hev.client].registered
    /\ NoTeardownSince(hev.before)

(* The channels in the channels table of the session of hev before hev. *)
ChannelsBefore == DOMAIN hev.before.cl[hev.client].channelMap

(* What JOIN 0 of session A is to leave behind and to enqueue:              *)
(* after JOIN 0 of a registered session A its channels table is empty,      *)
(* A is in no member table and its key in no mode table, every channel A    *)
(* was the last member of is gone, and for each channel A was in every      *)
(* connected member of it, A included, was enqueued one rplPart.            *)
JoinZeroLeft ==
        LET A == hev.client
            nick == hev.before.cl[A].nick
        IN /\ cl[A].channelMap = EmptyMap
           /\ ChannelsOf(A) = {}
           /\ \A n \in ChannelsBefore \cap DOMAIN hev.before.channelMap :
                 /\ n \in DOMAIN channelMap
                       => cl[A].key \notin DOMAIN chans[channelMap[n]].modeMap
                 /\ MembersBefore(n) \subseteq {A} => n \notin DOMAIN channelMap
                 /\ \A B \in MembersBefore(n) \cup {A} :
                       cl[B].connected
                          => EnqueuedLine(B, Line("rplPart", nick, n, <<>>)) = 1

(* C17: after JOIN 0 of a registered session A its channels table is empty, *)
(* A is in no member or mode table, the channels it was the last member of  *)
(* are gone and the members of each channel it left were enqueued one       *)
(* rplPart each.                                                            *)
C17_JoinZero == JoinZeroDone => JoinZeroLeft

(* C17 where every channel of A's channels table had A under A's key. *)
C17_JoinZeroOwnEntries ==
    (JoinZeroDone
       /\ \A n \in ChannelsBefore :
              LET o == hev.before.cl[hev.client].channelMap[n]
                  k == hev.before.cl[hev.client].key
              IN /\ n \in DOMAIN hev.before.channelMap
                 /\ hev.before.channelMap[n] = o
                 /\ k \in DOMAIN hev.before.chans[o].clientMap
                 /\ hev.before.chans[o].clientMap[k] = hev.client)
        => JoinZeroLeft

(* C17, its case: a session left two channels with JOIN 0, one of which it  *)
(* was the last member of and one of which has a member left.               *)
C17_LeftTwo ==
    /\ JoinZeroDone
    /\ ChannelsBefore = {X, Y}
    /\ {X, Y} \subseteq DOMAIN hev.before.channelMap
    /\ \E n \in {X, Y} : MembersBefore(n) = {hev.client}
    /\ \E n \in {X, Y} : n \in DOMAIN channelMap

(* The handler of a NICK whose argument is the server's name in some letter *)
(* case has returned.                                                       *)
NickOfServerDone ==
    /\ Idle
    /\ hev.input.verb = "NICK"
    /\ Len(hev.input.args) >= 1
    /\ ToLower(hev.input.args[1]) = ToLower(name)
    /\ NoTeardownSince(hev.before)

(* C18: a NICK that equals the server's name when both are lower-cased is   *)
(* answered with errNickInUse and leaves the session's nick and key and     *)
(* clientMap as they were, and no key of clientMap is the lower-cased name  *)
(* of the server.                                                           *)
C18_ServerNameProtected ==
    /\ ToLower(name) \notin DOMAIN clientMap
    /\ NickOfServerDone =>
          /\ cl[hev.client].nick = hev.before.cl[hev.client].nick
          /\ cl[hev.client].key = hev.before.cl[hev.client].key
          /\ clientMap = hev.before.clientMap
          /\ \A i \in 1..Len(hlog) :
                hlog[i] = [to |-> hev.client,
                           line |-> Line("errNickInUse", hev.input.args[1],
                                         <<>>, <<>>)]

(* C18 for the server's name in the letter case the server has it in. *)
C18_ExactNameProtected ==
    (NickOfServerDone /\ hev.input.args[1] = name) =>
          /\ cl[hev.client].nick = hev.before.cl[hev.client].nick
          /\ clientMap = hev.before.clientMap
          /\ Len(hlog) = 1
          /\ hlog[1].line.code = "errNickInUse"

(* The handler of a PRIVMSG to a channel with noExternal set has returned,  *)
(* and its sender was registered and neither a member of the channel nor    *)
(* the holder of a key of its member table.                                 *)
ExternalDone ==
    /\ RelayDone
    /\ NoTeardownSince(hev.before)
    /\ LET b == hev.before
           o == b.channelMap[hev.input.args[1]]
       IN /\ b.chans[o].noExternal
          /\ hev.client \notin MembersBefore(hev.input.args[1])
          /\ b.cl[hev.client].key \notin DOMAIN b.chans[o].clientMap

(* Every channel of channelMap has noExternal set. *)
CreatedNoExternal == \A n \in DOMAIN channelMap : chans[channelMap[n]].noExternal

(* C19: every channel has noExternal set from its creation, and a PRIVMSG   *)
(* to such a channel from a registered session that is not a member of it   *)
(* enqueues an rplMsg to no member, and enqueues an error reply to the      *)
(* sender.                                                                  *)
C19_NoExternal ==
    /\ CreatedNoExternal
    /\ ExternalDone =>
          /\ \A i \in 1..Len(hlog) : hlog[i].line.code # "rplMsg"
          /\ \E i \in 1..Len(hlog) :
                /\ hlog[i].to = hev.client
                /\ hlog[i].line.code \in {"errCannotSend", "errNoSuchNick",
                                          "errNoPriv"}

(* A non-member's PRIVMSG to a channel with noExternal set has reached a    *)
(* member of the channel.                                                   *)
C19_ExternalRelayed ==
    /\ ExternalDone
    /\ \E i \in 1..Len(hlog) :
          /\ hlog[i].to \in MembersBefore(hev.input.args[1])
          /\ hlog[i].line.code = "rplMsg"

(* Close has been called at most once on the connection of every session,   *)
(* and only by a teardown that has run to its end after a disconnect.       *)
ClosedAtMostOnce ==
    \A c \in Clients :
        /\ closed[c] <= 1
        /\ closed[c] = 1 <=> sup[c] = "exit"
        /\ closed[c] = 1 => cause[c] # {}

(* When nothing more can happen, Close has been called on the connection of *)
(* every session that disconnect was called for.                            *)
ClosedAtLast ==
    (~ENABLED Next) => \A c \in Clients : cause[c] # {} => closed[c] = 1

(* C20: whatever causes of disconnection occur for a session, and however   *)
(* many, Close is called on its connection once in total: never twice,      *)
(* never before the end of its teardown, and once when all has come to rest.*)
C20_ClosedExactlyOnce == ClosedAtMostOnce /\ ClosedAtLast

(* A session that disconnect was called for with two causes has been closed.*)
C20_ClosedAfterTwoCauses ==
    \E c \in Clients : Cardinality(cause[c]) >= 2 /\ closed[c] = 1

(* All has come to rest and a session that disconnect was called for has    *)
(* not been closed.                                                         *)
C20_NeverClosed ==
    /\ ~ENABLED Next
    /\ \E c \in Clients : cause[c] # {} /\ closed[c] = 0

(* The handler of a JOIN of one channel name n by a registered session that *)
(* was a member of n has returned.                                          *)
MemberJoinDone(n) ==
    /\ Idle
    /\ hev.input = Cmd("JOIN", <<n>>)
    /\ hev.before.cl[hev.client].registered
    /\ n \in DOMAIN hev.before.channelMap
    /\ hev.client \in MembersBefore(n)
    /\ NoTeardownSince(hev.before)

SignalWaiters(c) ==
    {t \in Threads : /\ stack[t] # <<>>
                     /\ Head(stack[t]).op = "signal"
                     /\ Head(stack[t]).c = c}
       \cup (IF rd[c] = "signal" THEN {"reader"} ELSE {})
       \cup (IF wr[c] = "signal" THEN {"writer"} ELSE {})

(* C22: no call of disconnect, by the dispatcher, a supervisor, a reader or *)
(* a writer, ever finds the signal queue of its session full and waits.     *)
C22_SignalNeverBlocks == \A c \in Clients : SignalWaiters(c) = {}

(* Nothing more can happen, the supervisor of a session has returned, and   *)
(* a caller of disconnect for that session stands in the send with the      *)
(* signal queue full.                                                       *)
C22_WaitsForever ==
    /\ ~ENABLED Next
    /\ \E c \in Clients :
          /\ sup[c] = "exit"
          /\ sig[c] = SignalCap
          /\ SignalWaiters(c) # {}

====
